---- MODULE Spec2Model ----
(***************************************************************************)
(* Event-intake and dispatch pipeline of the WhatsApp career-coach bot     *)
(* (src/whatsapp_bot/whatsapp_direct_api.py): the GET /webhook handshake,  *)
(* the POST /webhook receiver with its signature gate, the nested          *)
(* entry/changes/messages loops, process_message, the text router and the  *)
(* senders.                                                                *)
(*                                                                         *)
(* Python strings are sequences of one-character strings, so that lower(), *)
(* `in` (substring), list membership and str.replace are computed the way  *)
(* the interpreter computes them.  The request body is read the way the    *)
(* handler reads it: each .get() is answered when the code performs it.    *)
(*                                                                         *)
(* Specifications:                                                         *)
(*   Spec      one request to GET or POST /webhook of whatsapp_direct_api   *)
(*   SendSpec  one sender call step by step, POST /send-message, and the   *)
(*             redelivery of a message unit (whatsapp_direct_api.py)       *)
(*   AiSpec    the text handler of the AI mode (main.py)                   *)
(*   CallSpec  entrypoint of the voice agent, one run per job              *)
(*             (src/career_coach.py)                                       *)
(*   DispatchSpec  the dispatch script and the metadata it hands to        *)
(*             entrypoint (src/make_outbound_call.py, src/career_coach.py) *)
(*   RegisterSpec  startup and POST /register-webhook of the PyWa variant  *)
(*             (src/whatsapp_bot/career_coach_webhook.py)                  *)
(***************************************************************************)
EXTENDS Integers, Sequences, FiniteSets, TLC

VARIABLES
    APP_SECRET,     \* module constant APP_SECRET (None when the variable is unset)
    VERIFY_TOKEN,   \* module constant VERIFY_TOKEN
    pc,             \* position of the request handler
    op,             \* which handler is running: "none", "GET", "POST"
    req,            \* request data in scope of the handler (query, raw body, header)
    sig,            \* signature gate: "unchecked", "skipped", "passed", "failed"
    pos,            \* <<entry index, change index, message index>> of the loops
    pid,            \* phone_number_id of the change being iterated
    cur,            \* the message unit handed to process_message
    inflight,       \* positions of units whose process_message has not returned
    sends,          \* outbound network calls made for the unit in cur
    flags,          \* what has happened during this request
    response        \* the HTTP response, None until the handler returns

\* The send path of the same module, stepped through one sender call
\* (send_text_message / send_button_message), POST /send-message, and the
\* redelivery of a message unit.
VARIABLES
    PHONE_ID,       \* module constant PHONE_ID (None when the variable is unset)
    ACCESS_TOKEN,   \* module constant ACCESS_TOKEN
    spc,            \* position inside the operation that sends
    job,            \* the operation: who sends what to whom
    outbox,         \* the requests.post calls made during the operation
    sret,           \* what the sender returned: "none", "True", "False", "raised"
    http,           \* the response of POST /send-message
    seen            \* the replies decided for the deliveries of one unit so far

webhookVars == <<APP_SECRET, VERIFY_TOKEN, pc, op, req, sig, pos, pid, cur, inflight,
                 sends, flags, response>>

sendVars == <<PHONE_ID, ACCESS_TOKEN, spc, job, outbox, sret, http, seen>>

\* The text handler of the AI mode (src/whatsapp_bot/main.py).
VARIABLES
    openai_client,  \* module global openai_client (None when there is no client)
    apc,            \* position inside handle_text_message
    ajob,           \* its arguments, what get_ai_response did, the text to send
    aoutbox         \* the requests.post calls it made

aiVars == <<openai_client, apc, ajob, aoutbox>>

\* The voice agent (src/career_coach.py): one run of entrypoint per job.
VARIABLES
    sessions        \* per job: the position and the locals of its entrypoint

callVars == <<sessions>>

\* The dispatch script (src/make_outbound_call.py) and the metadata block of
\* entrypoint that reads what the script wrote.
VARIABLES
    dispatch        \* sys.argv[1], the metadata built from it, what entrypoint reads

dispatchVars == <<dispatch>>

\* The PyWa variant of the bot (src/whatsapp_bot/career_coach_webhook.py): its
\* module globals and the calls of POST /register-webhook.
VARIABLES
    registry        \* wa, webhook_registered, the environment, the calls so far

registerVars == <<registry>>

vars == <<webhookVars, sendVars, aiVars, callVars, dispatchVars, registerVars>>

\* what the handlers of the webhook leave alone
notWebhook == <<sendVars, aiVars, callVars, dispatchVars, registerVars>>

\* what the send path leaves alone
notSend == <<webhookVars, aiVars, callVars, dispatchVars, registerVars>>

\* what the AI text handler leaves alone
notAi == <<webhookVars, sendVars, callVars, dispatchVars, registerVars>>

\* what the voice agent leaves alone
notCall == <<webhookVars, sendVars, aiVars, dispatchVars, registerVars>>

\* what the dispatch script leaves alone
notDispatch == <<webhookVars, sendVars, aiVars, callVars, registerVars>>

\* what the PyWa variant leaves alone
notRegister == <<webhookVars, sendVars, aiVars, callVars, dispatchVars>>

None == "None"          \* Python None / an absent header or query parameter
Missing == "MISSING"    \* a key that is not in a JSON object
Null == "NULL"          \* a JSON null value

(***************************************************************************)
(* Bounds of the model.                                                    *)
(***************************************************************************)
MaxEntries == 2     \* entries read from body["entry"]
MaxChanges == 2     \* changes read from one entry["changes"]
MaxMsgs == 2        \* messages read from one value["messages"]
MaxPieces == 2      \* pieces a signature header is put together from
MaxDeliveries == 2  \* deliveries of one message unit (the first and its redeliveries)
MaxJobs == 2        \* jobs dispatched to the voice agent
MaxPhoneLen == 3    \* characters of the argument of the dispatch script
MaxCalls == 4       \* calls of POST /register-webhook

(***************************************************************************)
(* Strings.                                                                *)
(***************************************************************************)
UpperAlpha ==
    <<"A","B","C","D","E","F","G","H","I","J","K","L","M",
      "N","O","P","Q","R","S","T","U","V","W","X","Y","Z">>

LowerAlpha ==
    <<"a","b","c","d","e","f","g","h","i","j","k","l","m",
      "n","o","p","q","r","s","t","u","v","w","x","y","z">>

\* str.lower() on one character
LowerChar(ch) ==
    IF \E i \in DOMAIN UpperAlpha : UpperAlpha[i] = ch
    THEN LowerAlpha[CHOOSE i \in DOMAIN UpperAlpha : UpperAlpha[i] = ch]
    ELSE ch

\* str.lower()
Lower(s) == [i \in 1..Len(s) |-> LowerChar(s[i])]

\* Python `sub in s` for strings: substring containment
Contains(sub, s) ==
    \E i \in 0..(Len(s) - Len(sub)) : SubSeq(s, i + 1, i + Len(sub)) = sub

\* s[:n]
Take(s, n) == SubSeq(s, 1, IF Len(s) < n THEN Len(s) ELSE n)

RECURSIVE ReplaceFrom(_, _, _)
\* str.replace(old, ""), scanning s from index i: leftmost, non-overlapping,
\* one pass
ReplaceFrom(s, old, i) ==
    IF i > Len(s) THEN <<>>
    ELSE IF i + Len(old) - 1 <= Len(s) /\ SubSeq(s, i, i + Len(old) - 1) = old
         THEN ReplaceFrom(s, old, i + Len(old))
         ELSE <<s[i]>> \o ReplaceFrom(s, old, i + 1)

Remove(s, old) == ReplaceFrom(s, old, 1)

(***************************************************************************)
(* Signature verification.                                                 *)
(***************************************************************************)
Sha256Prefix == <<"s","h","a","2","5","6","=">>

Secrets == {"s1", "s2"}         \* keys a sender may sign with
RawBodies == {"b1", "b2"}       \* raw request bodies (byte strings)

\* hmac.new(key, payload, sha256).hexdigest(): the 64 hex characters are one
\* string element, a different one for every (key, payload): HMAC-SHA256 is
\* taken to be collision free.
HexDigest(key, payload) == <<"<hmac:" \o key \o ":" \o payload \o ">">>

\* hmac.compare_digest on two str values
CompareDigest(a, b) == a = b

\* verify_webhook_signature(payload, signature)
verify_webhook_signature(payload, signature) ==
    IF signature = <<>> \/ APP_SECRET = None
    THEN FALSE
    ELSE CompareDigest(Remove(signature, Sha256Prefix),
                       HexDigest(APP_SECRET, payload))

\* The header values a sender can present: nothing, or up to MaxPieces pieces
\* out of the prefix, fragments of the prefix, and digests.
HeaderPieces ==
    {Sha256Prefix, <<"s","h","a","2","5">>, <<"6","=">>}
        \cup {HexDigest(k, b) : k \in Secrets, b \in RawBodies}

RECURSIVE HeadersOf(_)
HeadersOf(n) ==
    IF n = 0 THEN {<<>>}
    ELSE LET shorter == HeadersOf(n - 1)
         IN  shorter \cup {h \o p : h \in shorter, p \in HeaderPieces}

Headers == HeadersOf(MaxPieces)

(***************************************************************************)
(* GET /webhook                                                            *)
(***************************************************************************)
DefaultVerifyToken == "career_coach_verify_token"

Modes == {None, "subscribe", "unsubscribe"}
Tokens == {None, "", DefaultVerifyToken, "my_token", "wrong"}
Challenges == {None, "1158201444", "challenge-2"}

HandshakeTokenOnly(mode, token) == token = VERIFY_TOKEN

\* the condition of the if at the top of verify_webhook
HandshakeOk(mode, token) == mode = "subscribe" /\ token = VERIFY_TOKEN

\* Response(content=hub_challenge, media_type="text/plain"): a content of
\* None renders as the empty body
ChallengeResponse(challenge) ==
    [status |-> 200,
     body |-> IF challenge = None THEN "" ELSE challenge,
     media |-> "text/plain"]

Forbidden(detail) ==
    [status |-> 403, body |-> detail, media |-> "application/json"]

ServerError == [status |-> 500, body |-> "Internal Server Error", media |-> "text/plain"]

EventReceived ==
    [status |-> 200, body |-> "EVENT_RECEIVED", media |-> "application/json"]

(***************************************************************************)
(* Texts.                                                                  *)
(***************************************************************************)
T_ping == <<"p","i","n","g">>  \* "ping"

T_Ping == <<"P","i","n","g">>  \* "Ping"

T_Hello == <<"H","e","l","l","o">>  \* "Hello"

T_nothing == <<"n","o","t","h","i","n","g">>  \* "nothing"

T_this_resume == <<"t","h","i","s"," ","r","e","s","u","m","e">>  \* "this resume"

T_resume_interview == <<"I"," ","n","e","e","d"," ","r","e","s","u","m","e"," ","a","n","d"," ","i","n","t","e","r","v","i","e","w"," ","h","e","l","p">>  \* "I need resume and interview help"

T_Which_resume_interview == <<"W","h","i","c","h"," ","r","e","s","u","m","e"," ","o","r"," ","i","n","t","e","r","v","i","e","w">>  \* "Which resume or interview"

T_Negotiate == <<"N","e","g","o","t","i","a","t","e"," ","p","a","y">>  \* "Negotiate pay"

T_my_job == <<"m","y"," ","j","o","b">>  \* "my job"

T_ok == <<"o","k">>  \* "ok"

T_empty == <<>>  \* ""

Texts ==
    {T_ping, T_Ping, T_Hello, T_nothing, T_this_resume, T_resume_interview,
     T_Which_resume_interview, T_Negotiate, T_my_job, T_ok, T_empty}

K_test == <<"t","e","s","t">>

K_ping == <<"p","i","n","g">>

K_webhook == <<"w","e","b","h","o","o","k">>

K_hi == <<"h","i">>

K_hello == <<"h","e","l","l","o">>

K_hey == <<"h","e","y">>

K_start == <<"s","t","a","r","t">>

K_resume == <<"r","e","s","u","m","e">>

K_interview == <<"i","n","t","e","r","v","i","e","w">>

K_salary == <<"s","a","l","a","r","y">>

K_negotiat == <<"n","e","g","o","t","i","a","t">>

K_job == <<"j","o","b">>

K_career == <<"c","a","r","e","e","r">>

K_work == <<"w","o","r","k">>

K_skills == <<"s","k","i","l","l","s">>

K_promotion == <<"p","r","o","m","o","t","i","o","n">>

TestKeywords == {K_test, K_ping, K_webhook}

GreetingKeywords == {K_hi, K_hello, K_hey, K_start}

CareerKeywords == {K_job, K_career, K_work, K_skills, K_promotion}

\* WELCOME_MESSAGES, each text named by its place in the list
WELCOME_MESSAGES == <<"welcome_hello", "welcome_hi_there", "welcome_welcome">>

WelcomeIndexes == DOMAIN WELCOME_MESSAGES   \* what random.choice can pick

WelcomeButtons == <<"goals", "resume", "jobs">>

ButtonTopics == {"goals", "resume", "jobs"}     \* keys of responses in handle_button_reply

PreviewLen == 50    \* user_message[:50]

(***************************************************************************)
(* Senders.  A send is one requests.post to {GRAPH_API_URL}/{pid}/messages.*)
(***************************************************************************)
NetOutcomes == {"200", "non200", "exception"}

Truthy(x) == x \notin {None, Missing, Null, ""}

Reply(kind, tpl, arg, buttons) ==
    [kind |-> kind, tpl |-> tpl, arg |-> arg, buttons |-> buttons]

NetworkCall(to, p, reply, net) ==
    [to |-> to, pid |-> p, reply |-> reply, net |-> net]

send_text_message_through_first_id(to, tpl, arg, p, net) ==
    <<NetworkCall(to, "PID1", Reply("text", tpl, arg, <<>>), net)>>

\* send_text_message(to, text, phone_number_id): the calls it makes
send_text_message(to, tpl, arg, p, net) ==
    IF ~Truthy(p) THEN <<>>
    ELSE <<NetworkCall(to, p, Reply("text", tpl, arg, <<>>), net)>>

\* send_button_message(to, text, buttons, phone_number_id)
send_button_message(to, tpl, arg, buttons, p, net) ==
    IF ~Truthy(p) THEN <<>>
    ELSE <<NetworkCall(to, p, Reply("button", tpl, arg, buttons), net)>>

send_welcome_message_varying(to, p, net, pick) ==
    IF ~Truthy(p) THEN <<>>
    ELSE send_button_message(to, WELCOME_MESSAGES[pick], <<>>,
                             SubSeq(WelcomeButtons, 1, pick), p, net)

\* send_welcome_message(to, phone_number_id); pick is random.choice's index
send_welcome_message(to, p, net, pick) ==
    IF ~Truthy(p) THEN <<>>
    ELSE send_button_message(to, WELCOME_MESSAGES[pick], <<>>, WelcomeButtons, p, net)

\* send_career_advice(to, user_message, phone_number_id)
send_career_advice(to, user_message, p, net) ==
    IF ~Truthy(p) THEN <<>>
    ELSE send_text_message(to, "career_advice", Take(user_message, PreviewLen), p, net)

\* send_default_message(to, phone_number_id)
send_default_message(to, p, net) ==
    send_text_message(to, "default_overview", <<>>, p, net)

(***************************************************************************)
(* The text router: the branch handle_text_message takes.                  *)
(***************************************************************************)
IsTestKeyword(text_lower) == text_lower \in TestKeywords

\* the condition of the "Greetings" if of handle_text_message
IsGreeting(text_lower) ==
    \E greeting \in GreetingKeywords : Contains(greeting, text_lower)

HasCareerKeyword(text_lower) ==
    \E word \in CareerKeywords : Contains(word, text_lower)

\* the if/elif chain of handle_text_message
TextBranchInOrder(text) ==
    LET text_lower == Lower(text)
    IN  IF IsTestKeyword(text_lower) THEN "webhook_working"
        ELSE IF IsGreeting(text_lower) THEN "welcome"
        ELSE IF Contains(K_resume, text_lower) THEN "advice_resume"
        ELSE IF Contains(K_interview, text_lower) THEN "advice_interview"
        ELSE IF Contains(K_salary, text_lower) \/ Contains(K_negotiat, text_lower)
             THEN "advice_salary"
        ELSE IF HasCareerKeyword(text_lower) THEN "career_advice"
        ELSE "default_overview"

\* the branch of every text of Texts, computed once
BranchOfText == [t \in Texts |-> TextBranchInOrder(t)]

TextBranch(text) ==
    IF text \in Texts THEN BranchOfText[text] ELSE TextBranchInOrder(text)

\* handle_text_message(sender, text, phone_number_id): the calls it makes
handle_text_message(sender, text, p, net, pick) ==
    LET branch == TextBranch(text)
    IN  CASE branch = "webhook_working" ->
                send_text_message(sender, "webhook_working", text, p, net)
          [] branch = "welcome" -> send_welcome_message(sender, p, net, pick)
          [] branch \in {"advice_resume", "advice_interview", "advice_salary"} ->
                IF Truthy(p) THEN send_text_message(sender, branch, <<>>, p, net)
                ELSE <<>>
          [] branch = "career_advice" ->
                IF Truthy(p) THEN send_career_advice(sender, text, p, net) ELSE <<>>
          [] OTHER ->
                IF Truthy(p) THEN send_default_message(sender, p, net) ELSE <<>>

\* handle_button_reply(sender, button_id, phone_number_id)
handle_button_reply(sender, button_id, p, net) ==
    LET tpl == IF button_id \in ButtonTopics THEN "button_" \o button_id
               ELSE "button_tell_me_more"
    IN  IF Truthy(p) THEN send_text_message(sender, tpl, <<>>, p, net) ELSE <<>>

(***************************************************************************)
(* Message units and process_message.                                      *)
(***************************************************************************)
Unit(from, type, textKind, body, ikind, button) ==
    [from |-> from, type |-> type, textKind |-> textKind, body |-> body,
     ikind |-> ikind, button |-> button]

NoUnit == Unit(Missing, "none", "missing", <<>>, "missing", Missing)

TextUnit(from, t) == Unit(from, "text", "str", t, "missing", Missing)

ButtonUnit(from, id) == Unit(from, "interactive", "missing", <<>>, "button_reply", id)

Units ==
    {TextUnit("123", t) : t \in Texts}
        \cup {TextUnit(Missing, T_ping)}
        \cup {Unit("123", "text", k, <<>>, "missing", Missing) :
                  k \in {"missing", "null", "no_body", "null_body"}}
        \cup {ButtonUnit("123", id) : id \in {"goals", "resume", "jobs", "other", Missing}}
        \cup {ButtonUnit(Missing, "goals")}
        \cup {Unit("123", "interactive", "missing", <<>>, k, Missing) :
                  k \in {"missing", "null", "list_reply"}}
        \cup {Unit(f, "request_welcome", "missing", <<>>, "missing", Missing) :
                  f \in {"123", Missing}}
        \cup {Unit("123", t, "missing", <<>>, "missing", Missing) :
                  t \in {"image", Missing, "non_object"}}

\* whether the calls carry a text picked by random.choice
UsesRandom(calls) ==
    \E i \in DOMAIN calls :
        \E k \in WelcomeIndexes : calls[i].reply.tpl = WELCOME_MESSAGES[k]

Outcome(raised, calls) == [raised |-> raised, calls |-> calls]

UnhandledRaises == Outcome(TRUE, <<>>)

\* the final else of process_message: the kind is logged, nothing else is done
UnhandledOutcome == Outcome(FALSE, <<>>)

\* the kinds process_message has a branch for
HandledTypes == {"text", "interactive", "request_welcome"}

\* process_message(message, phone_number_id): whether it raises, and the
\* network calls it makes
process_message(u, p, net, pick) ==
    IF u.type = "non_object" THEN Outcome(TRUE, <<>>)      \* message.get on a non-dict
    ELSE IF u.type = "text" THEN
        IF u.textKind = "null" THEN Outcome(TRUE, <<>>)    \* None.get("body", "")
        ELSE IF ~Truthy(u.from) THEN Outcome(FALSE, <<>>)
        ELSE IF u.textKind = "null_body" THEN Outcome(TRUE, <<>>)   \* None.lower()
        ELSE Outcome(FALSE, handle_text_message(u.from, u.body, p, net, pick))
    ELSE IF u.type = "interactive" THEN
        IF u.ikind = "null" THEN Outcome(TRUE, <<>>)       \* None.get("type")
        ELSE IF u.ikind = "button_reply" /\ Truthy(u.from)
             THEN Outcome(FALSE, handle_button_reply(u.from, u.button, p, net))
             ELSE Outcome(FALSE, <<>>)
    ELSE IF u.type = "request_welcome" THEN
        IF Truthy(u.from) THEN Outcome(FALSE, send_welcome_message(u.from, p, net, pick))
        ELSE Outcome(FALSE, <<>>)
    ELSE UnhandledOutcome

(***************************************************************************)
(* POST /webhook                                                           *)
(***************************************************************************)
NoFlags ==
    [sent |-> FALSE, sendFailed |-> FALSE, raised |-> FALSE,
     missingField |-> FALSE, unparseable |-> FALSE, dropped |-> FALSE]

NoPos == <<0, 0, 0>>

NoReq == [mode |-> None, challenge |-> None, token |-> None, raw |-> None,
          header |-> <<>>]

NoResponse == [status |-> 0, body |-> "", media |-> ""]

\* `if APP_SECRET:` and the signature check under it
SignatureGate(payload, header) ==
    IF APP_SECRET = None THEN "skipped"
    ELSE IF verify_webhook_signature(payload, header) THEN "passed"
    ELSE "failed"

LogsOnly(gate) == FALSE

\* `raise HTTPException(status_code=403, ...)` when the check fails
Rejects(gate) == gate = "failed"

\* request.headers.get("X-Hub-Signature-256", ""): read only when APP_SECRET is set
HeaderRead(header) == IF APP_SECRET = None THEN <<>> ELSE header

\* The head of receive_webhook: request.json(), then the signature gate.
receive_webhook(parses, raw, header) ==
    /\ pc = "idle"
    /\ op' = "POST"
    /\ IF ~parses
       THEN \* request.json() raises: the framework answers 500
            /\ req' = [NoReq EXCEPT !.raw = raw]
            /\ sig' = "unchecked"
            /\ flags' = [flags EXCEPT !.unparseable = TRUE]
            /\ response' = ServerError
            /\ pc' = "done"
       ELSE LET gate == SignatureGate(raw, header)
            IN  /\ req' = [NoReq EXCEPT !.raw = raw, !.header = HeaderRead(header)]
                /\ sig' = gate
                /\ flags' = flags
                /\ response' = IF Rejects(gate) THEN Forbidden("Invalid signature")
                               ELSE NoResponse
                /\ pc' = IF Rejects(gate) THEN "done" ELSE "try"
    /\ UNCHANGED <<APP_SECRET, VERIFY_TOKEN, pos, pid, cur, inflight, sends>>

ObjectFields == {"whatsapp_business_account", "page", Missing, "non_object"}

\* `if body.get("object") == "whatsapp_business_account":`; the signature
\* header goes out of scope
enter_body(obj) ==
    /\ pc = "try"
    /\ req' = [req EXCEPT !.header = <<>>]
    /\ flags' = [flags EXCEPT !.raised = (obj = "non_object"),
                              !.missingField = (obj = Missing)]
    /\ pc' = IF obj = "whatsapp_business_account" THEN "entries" ELSE "ack"
    /\ UNCHANGED <<APP_SECRET, VERIFY_TOKEN, op, sig, pos, pid, cur, inflight, sends,
                   response>>

EntryReads == {"end", "missing_key", "entry", "non_object"}

\* `for entry in body.get("entry", []):`
next_entry(read) ==
    /\ pc = "entries"
    /\ read = "missing_key" => pos[1] = 0
    /\ read = "entry" => pos[1] < MaxEntries
    /\ read = "non_object" => pos[1] < MaxEntries
    /\ pos' = IF read \in {"entry", "non_object"} THEN <<pos[1] + 1, 0, 0>> ELSE pos
    /\ flags' = [flags EXCEPT !.raised = (read = "non_object"),
                              !.missingField = @ \/ read = "missing_key"]
    /\ pc' = IF read = "entry" THEN "changes" ELSE "ack"
    /\ pid' = None
    /\ cur' = NoUnit
    /\ sends' = <<>>
    /\ UNCHANGED <<APP_SECRET, VERIFY_TOKEN, op, req, sig, inflight, response>>

ChangeReads ==
    {"end", "missing_key", "non_object", "value_missing", "metadata_null",
     "metadata_missing", "pid_missing", "PID1", "PID2"}

\* value.get("metadata", {}).get("phone_number_id")
PhoneNumberId(read) == IF read \in {"PID1", "PID2"} THEN read ELSE None

\* `for change in entry.get("changes", []):` down to the phone_number_id
next_change(read) ==
    /\ pc = "changes"
    /\ read = "missing_key" => pos[2] = 0
    /\ read \notin {"end", "missing_key"} => pos[2] < MaxChanges
    /\ pos' = IF read \in {"end", "missing_key"} THEN pos ELSE <<pos[1], pos[2] + 1, 0>>
    /\ flags' = [flags EXCEPT
                    !.raised = (read \in {"non_object", "metadata_null"}),
                    !.missingField = @ \/ read \in {"missing_key", "value_missing",
                                                    "metadata_missing", "pid_missing"}]
    /\ pc' = CASE read \in {"end", "missing_key"} -> "entries"
               [] read \in {"non_object", "metadata_null"} -> "ack"
               [] read = "value_missing" -> "changes"
               [] OTHER -> "messages"
    /\ pid' = PhoneNumberId(read)
    /\ cur' = NoUnit
    /\ sends' = <<>>
    /\ UNCHANGED <<APP_SECRET, VERIFY_TOKEN, op, req, sig, inflight, response>>

NotAwaited == "messages"

\* `await process_message(message, phone_number_id)`: the loop is suspended
\* until the call returns
AwaitPc == "in_message"

\* `for message in messages:` and the call of process_message
start_message(u) ==
    /\ pc = "messages"
    /\ pos[3] < MaxMsgs
    /\ pos' = <<pos[1], pos[2], pos[3] + 1>>
    /\ cur' = u
    /\ inflight' = Append(inflight, pos')
    /\ sends' = <<>>
    /\ pc' = AwaitPc
    /\ UNCHANGED <<APP_SECRET, VERIFY_TOKEN, op, req, sig, pid, flags, response>>

\* process_message runs to its return or to its exception
finish_message(net, pick) ==
    /\ pc = "in_message"
    /\ inflight # <<>>
    /\ LET out == process_message(cur, pid, net, pick)
       IN  /\ out.calls = <<>> => net = "200"      \* no call: nothing to answer
           /\ ~UsesRandom(out.calls) => pick = 1   \* random.choice is not called
           /\ sends' = out.calls
           /\ flags' = [flags EXCEPT
                           !.raised = out.raised,
                           !.sent = @ \/ out.calls # <<>>,
                           !.dropped = @ \/ cur.type \notin HandledTypes \cup {"non_object"},
                           !.sendFailed = @ \/ (out.calls # <<>> /\ net # "200")]
           /\ pc' = IF out.raised THEN "ack" ELSE "returned"
    /\ inflight' = Tail(inflight)
    /\ UNCHANGED <<APP_SECRET, VERIFY_TOKEN, op, req, sig, pos, pid, cur, response>>

\* process_message has returned: control is back at `for message in messages:`
\* and the locals of the call are gone
loop_messages ==
    /\ pc = "returned"
    /\ pc' = "messages"
    /\ cur' = NoUnit
    /\ sends' = <<>>
    /\ UNCHANGED <<APP_SECRET, VERIFY_TOKEN, op, req, sig, pos, pid, inflight, flags,
                   response>>

MessagesEnd == {"end", "missing_key", "bad_status"}

\* the messages are exhausted; `for status in statuses:` only logs
end_messages(read) ==
    /\ pc = "messages"
    /\ read = "missing_key" => pos[3] = 0
    /\ flags' = [flags EXCEPT !.raised = (read = "bad_status"),
                              !.missingField = @ \/ read = "missing_key"]
    /\ pc' = IF read = "bad_status" THEN "ack" ELSE "changes"
    /\ cur' = NoUnit
    /\ sends' = <<>>
    /\ UNCHANGED <<APP_SECRET, VERIFY_TOKEN, op, req, sig, pos, pid, inflight, response>>

AckUnlessRaised(raised) == IF raised THEN ServerError ELSE EventReceived

\* `except Exception` logs; both paths reach `return {"status": "EVENT_RECEIVED"}`
AckResponse(raised) == EventReceived

acknowledge ==
    /\ pc = "ack"
    /\ response' = AckResponse(flags.raised)
    /\ pc' = "done"
    /\ UNCHANGED <<APP_SECRET, VERIFY_TOKEN, op, req, sig, pos, pid, cur, inflight,
                   sends, flags>>

verify_webhook(mode, challenge, token) ==
    /\ pc = "idle"
    /\ op' = "GET"
    /\ req' = [NoReq EXCEPT !.mode = mode, !.challenge = challenge, !.token = token]
    /\ response' = IF HandshakeOk(mode, token)
                   THEN ChallengeResponse(challenge)
                   ELSE Forbidden("Verification failed")
    /\ pc' = "done"
    /\ UNCHANGED <<APP_SECRET, VERIFY_TOKEN, sig, pos, pid, cur, inflight, sends, flags>>

\* no handler of the webhook is running
WebhookIdle ==
    /\ pc = "idle"
    /\ op = "none"
    /\ req = NoReq
    /\ sig = "unchecked"
    /\ pos = NoPos
    /\ pid = None
    /\ cur = NoUnit
    /\ inflight = <<>>
    /\ sends = <<>>
    /\ flags = NoFlags
    /\ response = NoResponse

(***************************************************************************)
(* The send path: one sender call step by step, POST /send-message, and    *)
(* the redelivery of a message unit.                                       *)
(***************************************************************************)
NoReply == Reply("none", "none", <<>>, <<>>)

NoJob == [op |-> "none", unit |-> NoUnit, pid |-> None, to |-> Missing,
          reply |-> NoReply]

ApiRecipients == {"123", "456"}     \* SendMessage.to

ApiMessages == {T_ok, T_my_job}     \* SendMessage.message

Pids == {None, "PID1"}              \* phone_number_id a delivery carries

\* return {"status": "sent", "to": message.to}
SentResponse == [status |-> 200, body |-> "sent", media |-> "application/json"]

\* raise HTTPException(status_code=500, detail=...)
HttpError(detail) == [status |-> 500, body |-> detail, media |-> "application/json"]

\* the reply process_message decides for a unit, NoReply when it sends nothing
ReplyOf(out) == IF out.calls = <<>> THEN NoReply ELSE out.calls[1].reply

\* one delivery of unit u on channel p reaches process_message; the handler
\* it routes to calls a sender, which gets past its phone_number_id check
Handle(u, p, pick) ==
    LET out == process_message(u, p, "200", pick)
    IN  /\ ~UsesRandom(out.calls) => pick = 1      \* random.choice is not called
        /\ job' = [op |-> "webhook", unit |-> u, pid |-> p, to |-> u.from,
                   reply |-> ReplyOf(out)]
        /\ seen' = Append(seen, ReplyOf(out))
        /\ outbox' = <<>>
        /\ sret' = "none"
        /\ spc' = IF ReplyOf(out) = NoReply THEN "done" ELSE "post"
        /\ UNCHANGED <<PHONE_ID, ACCESS_TOKEN, http>>

\* the first delivery of a message unit
deliver(u, p, pick) ==
    /\ spc = "idle"
    /\ Handle(u, p, pick)

\* the provider delivers the identical unit again
redeliver(pick) ==
    /\ spc = "done"
    /\ job.op = "webhook"
    /\ Len(seen) < MaxDeliveries
    /\ Handle(job.unit, job.pid, pick)

\* `if not all([PHONE_ID, ACCESS_TOKEN])` of send_message_api
Configured == Truthy(PHONE_ID) /\ Truthy(ACCESS_TOKEN)

\* POST /send-message up to the call of send_text_message
send_message_api(to, message) ==
    /\ spc = "idle"
    /\ job' = [op |-> "api", unit |-> NoUnit, pid |-> PHONE_ID, to |-> to,
               reply |-> Reply("text", "api_message", message, <<>>)]
    /\ http' = IF Configured THEN NoResponse ELSE HttpError("Missing configuration")
    /\ spc' = IF Configured THEN "post" ELSE "done"
    /\ outbox' = <<>>
    /\ sret' = "none"
    /\ UNCHANGED <<PHONE_ID, ACCESS_TOKEN, seen>>

\* requests.post(url, headers=headers, json=data) inside the try of a sender
requests_post(net) ==
    /\ spc = "post"
    /\ outbox' = Append(outbox, [to |-> job.to, pid |-> job.pid, reply |-> job.reply,
                                 auth |-> ACCESS_TOKEN, net |-> net])
    /\ spc' = IF net = "exception" THEN "except" ELSE "status"
    /\ UNCHANGED <<PHONE_ID, ACCESS_TOKEN, job, sret, http, seen>>

\* `if response.status_code == 200: return True / else: return False`
status_check ==
    /\ spc = "status"
    /\ sret' = IF outbox[Len(outbox)].net = "200" THEN "True" ELSE "False"
    /\ spc' = "returned"
    /\ UNCHANGED <<PHONE_ID, ACCESS_TOKEN, job, outbox, http, seen>>

SendExceptionPropagates == "raised"

\* `except Exception as e:` logs and returns False
OnSendException == "False"

except_clause ==
    /\ spc = "except"
    /\ sret' = OnSendException
    /\ spc' = IF OnSendException = "raised" THEN "escaped" ELSE "returned"
    /\ UNCHANGED <<PHONE_ID, ACCESS_TOKEN, job, outbox, http, seen>>

\* the sender has returned: send_message_api answers by the value, the
\* handlers of the webhook ignore it
caller_resumes ==
    /\ spc = "returned"
    /\ http' = IF job.op # "api" THEN http
               ELSE IF sret = "True" THEN SentResponse
               ELSE HttpError("Failed to send message")
    /\ spc' = "done"
    /\ UNCHANGED <<PHONE_ID, ACCESS_TOKEN, job, outbox, sret, seen>>

\* nothing is being sent; the credentials are set
SendIdle ==
    /\ PHONE_ID = "PHONE1"
    /\ ACCESS_TOKEN = "token"
    /\ spc = "idle"
    /\ job = NoJob
    /\ outbox = <<>>
    /\ sret = "none"
    /\ http = NoResponse
    /\ seen = <<>>

(***************************************************************************)
(* AI mode (src/whatsapp_bot/main.py): handle_text_message and             *)
(* get_ai_response.                                                        *)
(***************************************************************************)
NoAiJob == [sender |-> Missing, text |-> <<>>, pid |-> None, gen |-> "none",
            reply |-> "none"]

Senders == {"123", "456"}       \* message["from"] of a text message

\* what openai_client.chat.completions.create and the read of
\* response.choices[0].message.content.strip() can do
GenOutcomes == {"content", "api_error", "no_content"}

\* `if not openai_client:` returns the canned introduction
UnavailableReply == "fallback_unavailable"

AiErrorPropagates == "raise"

\* `except Exception as e:` of get_ai_response returns the canned apology
OnApiError == "fallback_error"

\* handle_text_message(sender, text, phone_number_id) up to its first await
ai_handle_text_message(sender, text, p) ==
    /\ apc = "idle"
    /\ LET test == Lower(text) \in TestKeywords
       IN  /\ ajob' = [NoAiJob EXCEPT !.sender = sender, !.text = text, !.pid = p,
                                      !.reply = IF test THEN "webhook_working"
                                                ELSE "none"]
           /\ apc' = IF ~Truthy(p) THEN "done"
                     ELSE IF test THEN "post"
                     ELSE "generate"
    /\ UNCHANGED <<openai_client, aoutbox>>

\* get_ai_response(text, "Friend")
get_ai_response(outcome) ==
    /\ apc = "generate"
    /\ openai_client = None => outcome = "content"     \* the API is not called
    /\ LET reply == IF openai_client = None THEN UnavailableReply
                    ELSE IF outcome = "content" THEN "ai_content"
                    ELSE OnApiError
       IN  /\ ajob' = [ajob EXCEPT
                          !.gen = IF openai_client = None THEN "not_called" ELSE outcome,
                          !.reply = reply]
           /\ apc' = IF reply = "raise" THEN "raised" ELSE "post"
    /\ UNCHANGED <<openai_client, aoutbox>>

\* send_text_message(sender, ai_response, phone_number_id): one requests.post,
\* whose failure the sender turns into its return value
ai_send_text_message(net) ==
    /\ apc = "post"
    /\ aoutbox' = Append(aoutbox, [to |-> ajob.sender, pid |-> ajob.pid,
                                   kind |-> "text", text |-> ajob.reply, net |-> net])
    /\ apc' = "done"
    /\ UNCHANGED <<openai_client, ajob>>

\* the AI text handler is not running; there is a client
AiIdle ==
    /\ openai_client = "client"
    /\ apc = "idle"
    /\ ajob = NoAiJob
    /\ aoutbox = <<>>

(***************************************************************************)
(* The voice agent (src/career_coach.py): entrypoint(ctx), one run per job.*)
(***************************************************************************)
Jobs == 1..MaxJobs

\* ctx.job.metadata as the dispatcher can leave it
Metadata ==
    {"absent", "empty_string", "invalid_json", "non_object", "no_field",
     "empty_number", "null_number", "number_1", "number_2"}

\* phone_number after the try block of entrypoint
PhoneOf(md) ==
    CASE md = "number_1" -> "+15550100"
      [] md = "number_2" -> "+919876543210"
      [] md = "empty_number" -> ""
      [] OTHER -> None

\* json.loads gives a value without .get (a list, a string, a number, null):
\* the AttributeError is not among the exceptions the try block catches
ParseRaises(md) == md = "non_object"

\* ctx.room.name of job j: the dispatch for the first room is delivered
\* twice (jobs 1 and 2), every further job has a room of its own
RoomOf(j) == IF j <= 2 THEN "coaching-1" ELSE "coaching-" \o ToString(j - 1)

\* recording.egress_id of the recording started for job j
EgressId(j) == "EG_" \o ToString(j)

\* one capability invoked by entrypoint
Invocation(cap, arg, result) == [cap |-> cap, arg |-> arg, result |-> result]

\* the CallSession state a run of entrypoint is in
CallState(c) ==
    CASE c.pc = "start" -> "Idle"
      [] c.pc \in {"dial", "wait"} -> "Dialing"
      [] c.pc = "connected" -> "Connected"
      [] c.pc = "agent" -> IF c.recording_id = None THEN "Connected" ELSE "Recording"
      [] c.pc = "ending" -> "Ending"
      [] c.pc = "closed" -> "Closed"
      [] OTHER -> "Failed"

NewCall ==
    [pc |-> "start", metadata |-> "absent", phone_number |-> None,
     is_outbound |-> FALSE, recording_id |-> None, log |-> <<>>,
     trail |-> <<"Idle">>, conversation |-> "none"]

\* the record after a step, with the CallSession state it enters noted
Entered(c) ==
    IF CallState(c) = c.trail[Len(c.trail)] THEN c
    ELSE [c EXCEPT !.trail = Append(@, CallState(c))]

\* the try block that reads the phone number from the job's metadata
parse_metadata(j, md) ==
    /\ sessions[j].pc = "start"
    /\ LET phone_number == PhoneOf(md)
           is_outbound == Truthy(phone_number)
       IN  sessions' = [sessions EXCEPT ![j] = Entered(
               IF ParseRaises(md)
               THEN [@ EXCEPT !.metadata = md, !.pc = "crashed"]
               ELSE [@ EXCEPT !.metadata = md,
                              !.phone_number = phone_number,
                              !.is_outbound = is_outbound,
                              !.pc = IF is_outbound /\ Truthy(phone_number)
                                     THEN "dial" ELSE "wait"])]

DialOutcomes == {"answered", "twirp_error", "error"}

FallsThroughAfterFailure == "connected"

\* `ctx.shutdown()` and `return` in the handler of api.TwirpError
AfterDialFailure == "failed"

\* ctx.api.sip.create_sip_participant(..., wait_until_answered=True)
create_sip_participant(j, outcome) ==
    /\ sessions[j].pc = "dial"
    /\ LET dialled == Append(sessions[j].log,
                             Invocation("dial", sessions[j].phone_number, outcome))
       IN  sessions' = [sessions EXCEPT ![j] = Entered(
               CASE outcome = "answered" ->
                        [@ EXCEPT !.log = dialled, !.pc = "connected"]
                 [] outcome = "twirp_error" ->
                        [@ EXCEPT !.log = Append(dialled, Invocation("shutdown", "", "done")),
                                  !.pc = AfterDialFailure]
                 [] OTHER -> [@ EXCEPT !.log = dialled, !.pc = "crashed"])]

\* ctx.wait_for_participant() returns when a participant has joined
wait_for_participant(j) ==
    /\ sessions[j].pc = "wait"
    /\ sessions' = [sessions EXCEPT ![j] = Entered(
           [@ EXCEPT !.log = Append(@, Invocation("wait_for_participant", "", "joined")),
                     !.pc = "connected"])]

RecordsAlways(phone_number) == TRUE

\* `if phone_number:  # Only record actual phone calls`
RecordsCall(phone_number) == Truthy(phone_number)

RecordingOutcomes == {"started", "error"}

RecordingErrorFails == "failed"

\* `except Exception as e:` of the recording block logs and falls through
OnRecordingError == "agent"

\* the recording block: start_room_composite_egress inside try/except Exception
start_recording(j, outcome) ==
    /\ sessions[j].pc = "connected"
    /\ ~RecordsCall(sessions[j].phone_number) => outcome = "error"    \* nothing is started
    /\ sessions' = [sessions EXCEPT ![j] = Entered(
           IF RecordsCall(sessions[j].phone_number)
           THEN [@ EXCEPT !.log = Append(@, Invocation("start_egress", "", outcome)),
                          !.recording_id = IF outcome = "started" THEN EgressId(j)
                                           ELSE None,
                          !.pc = IF outcome = "started" THEN "agent"
                                 ELSE OnRecordingError]
           ELSE [@ EXCEPT !.pc = "agent"])]

SessionOutcomes == {"returned", "error"}

\* `await session.start(agent=..., room=ctx.room)`: the call returns once the
\* agent session runs in the room, or raises
session_start(j, outcome) ==
    /\ sessions[j].pc = "agent"
    /\ sessions' = [sessions EXCEPT ![j] = Entered(
           [@ EXCEPT !.log = Append(@, Invocation("session_start", "", outcome)),
                     !.conversation = IF outcome = "returned" THEN "in_progress"
                                      ELSE "none",
                     !.pc = IF outcome = "returned" THEN "ending" ELSE "crashed"])]

\* the agent session reports that the conversation is over (the participant
\* left, the room closed)
conversation_ends(j) ==
    /\ sessions[j].conversation = "in_progress"
    /\ sessions' = [sessions EXCEPT ![j].conversation = "completed"]

StopOutcomes == {"stopped", "error"}

RestartsAfterStop == "connected"

StopsAlways(recording_id) == TRUE

\* `if recording_id:`
StopsWhen(recording_id) == Truthy(recording_id)

\* the end of entrypoint
AfterStop == "closed"

\* `if recording_id:` and stop_egress inside try/except Exception
stop_recording(j, outcome) ==
    /\ sessions[j].pc = "ending"
    /\ ~StopsWhen(sessions[j].recording_id) => outcome = "error"      \* nothing to stop
    /\ sessions' = [sessions EXCEPT ![j] = Entered(
           IF StopsWhen(sessions[j].recording_id)
           THEN [@ EXCEPT !.log = Append(@, Invocation("stop_egress",
                                                       sessions[j].recording_id, outcome)),
                          !.pc = AfterStop]
           ELSE [@ EXCEPT !.pc = AfterStop])]

\* no job has been dispatched to the agent
CallIdle == sessions = [j \in Jobs |-> NewCall]

(***************************************************************************)
(* The dispatch script (src/make_outbound_call.py) and the metadata block  *)
(* of entrypoint.  Texts are sequences of one-character strings; the       *)
(* metadata is formatted and decoded character by character.               *)
(***************************************************************************)
\* the characters sys.argv[1] is put together from
PhoneChars == {"+", "1", "\"", "\\"}

\* the values of sys.argv[1]
Arguments == UNION {[1..n -> PhoneChars] : n \in 0..MaxPhoneLen}

\* `phone_number.startswith("+")`
StartsWithPlus(phone_number) == Len(phone_number) > 0 /\ phone_number[1] = "+"

K_phone_number == <<"p", "h", "o", "n", "e", "_", "n", "u", "m", "b", "e", "r">>

\* f'{{"phone_number": "{phone_number}"}}'
FormatMetadata(phone_number) ==
    <<"{", "\"">> \o K_phone_number \o <<"\"", ":", " ", "\"">>
        \o phone_number \o <<"\"", "}">>

\* the result of a decoding step: whether it succeeded, the value, where it stopped
Decoded(ok, value, next) == [ok |-> ok, value |-> value, next |-> next]

RECURSIVE SkipWhitespace(_, _)
\* json: whitespace between the tokens is skipped
SkipWhitespace(s, i) ==
    IF i <= Len(s) /\ s[i] \in {" ", "\t", "\n", "\r"} THEN SkipWhitespace(s, i + 1)
    ELSE i

\* json: the character an escape sequence `\c` stands for ("" when invalid;
\* \b and \uXXXX are left out, the arguments cannot spell them)
Unescape(c) ==
    CASE c \in {"\"", "\\", "/"} -> c
      [] c = "n" -> "\n"
      [] c = "t" -> "\t"
      [] c = "r" -> "\r"
      [] c = "f" -> "\f"
      [] OTHER -> ""

RECURSIVE ScanString(_, _, _)
\* json: the string literal whose opening quote is just before position i
ScanString(s, i, acc) ==
    IF i > Len(s) THEN Decoded(FALSE, <<>>, i)                  \* unterminated string
    ELSE IF s[i] = "\"" THEN Decoded(TRUE, acc, i + 1)
    ELSE IF s[i] = "\\"
         THEN IF i + 1 > Len(s) \/ Unescape(s[i + 1]) = ""
              THEN Decoded(FALSE, <<>>, i)                      \* invalid \escape
              ELSE ScanString(s, i + 2, Append(acc, Unescape(s[i + 1])))
    ELSE IF s[i] \in {"\t", "\n", "\r", "\f"} THEN Decoded(FALSE, <<>>, i)  \* control character
    ELSE ScanString(s, i + 1, Append(acc, s[i]))

\* json: a string literal expected at position i
StringAt(s, i) ==
    IF i <= Len(s) /\ s[i] = "\"" THEN ScanString(s, i + 1, <<>>)
    ELSE Decoded(FALSE, <<>>, i)

\* json.loads(ctx.job.metadata) followed by dial_info.get("phone_number"), for an
\* object of one member with a string value: ok is FALSE when json.loads raises
\* JSONDecodeError, the value is <<>> with found = FALSE when the key is not there
json_loads_get(s, wanted) ==
    LET open == SkipWhitespace(s, 1)
        key == StringAt(s, SkipWhitespace(s, open + 1))
        colon == SkipWhitespace(s, key.next)
        val == StringAt(s, SkipWhitespace(s, colon + 1))
        close == SkipWhitespace(s, val.next)
        ok == /\ open <= Len(s) /\ s[open] = "{"
              /\ key.ok
              /\ colon <= Len(s) /\ s[colon] = ":"
              /\ val.ok
              /\ close <= Len(s) /\ s[close] = "}"
              /\ SkipWhitespace(s, close + 1) = Len(s) + 1
    IN  [ok |-> ok,
         found |-> ok /\ key.value = wanted,
         value |-> IF ok /\ key.value = wanted THEN val.value ELSE <<>>]

NoDispatch ==
    [pc |-> "idle", phone_number |-> <<>>, metadata |-> <<>>,
     read |-> <<>>, is_outbound |-> FALSE]

\* main(): sys.argv[1] and the format check
dispatch_main(argument) ==
    /\ dispatch.pc = "idle"
    /\ dispatch' = [dispatch EXCEPT !.phone_number = argument,
                                    !.pc = IF StartsWithPlus(argument) THEN "accepted"
                                           ELSE "rejected"]

\* make_outbound_call(phone_number): create_dispatch with the metadata
make_outbound_call ==
    /\ dispatch.pc = "accepted"
    /\ dispatch' = [dispatch EXCEPT !.metadata = FormatMetadata(dispatch.phone_number),
                                    !.pc = "dispatched"]

\* the try block of entrypoint on the metadata of the dispatched job
read_metadata ==
    /\ dispatch.pc = "dispatched"
    /\ LET got == json_loads_get(dispatch.metadata, K_phone_number)
       IN  dispatch' = [dispatch EXCEPT !.read = got.value,
                                        !.is_outbound = got.value # <<>>,
                                        !.pc = "read"]

\* the dispatch script has not been run
DispatchIdle == dispatch = NoDispatch

(***************************************************************************)
(* The PyWa variant (src/whatsapp_bot/career_coach_webhook.py): the module *)
(* globals wa and webhook_registered, set at import and by                 *)
(* POST /register-webhook.  The handler has no await: a call runs from its *)
(* first line to its response without interleaving.                        *)
(***************************************************************************)
\* what os.getenv finds: no credentials; credentials without CALLBACK_URL;
\* every variable set
Environments == {"no_credentials", "no_callback", "complete"}

\* the client object built by the k-th construction (0: at import)
ClientOf(k) == "client_" \o ToString(k)

NoRegistry ==
    [pc |-> "import", env |-> "complete", wa |-> None, webhook_registered |-> FALSE,
     handlers |-> <<>>, calls |-> <<>>]

ConstructionOutcomes == {"built", "raises"}

\* the module-level try block: wa = WhatsApp(...) when the credentials are there
startup(outcome) ==
    /\ registry.pc = "import"
    /\ registry.env = "no_credentials" => outcome = "built"     \* nothing is built
    /\ registry' = [registry EXCEPT
                       !.wa = IF registry.env # "no_credentials" /\ outcome = "built"
                              THEN ClientOf(0) ELSE None,
                       !.pc = "serving"]

RegisterOutcomes == {"registered", "client_raises", "add_handlers_raises"}

\* register_webhook(): the globals after the call and its response, from the
\* globals before it; k numbers the client the call constructs
register(wa, webhook_registered, handlers, env, outcome, k) ==
    IF webhook_registered
    THEN [wa |-> wa, webhook_registered |-> TRUE, handlers |-> handlers,
          status |-> "already_registered"]
    ELSE IF env # "complete"
    THEN [wa |-> wa, webhook_registered |-> FALSE, handlers |-> handlers,
          status |-> "400"]
    ELSE IF outcome = "client_raises"
    THEN [wa |-> wa, webhook_registered |-> FALSE, handlers |-> handlers,
          status |-> "500"]
    ELSE IF outcome = "add_handlers_raises"
    THEN [wa |-> ClientOf(k), webhook_registered |-> FALSE, handlers |-> handlers,
          status |-> "500"]
    ELSE [wa |-> ClientOf(k), webhook_registered |-> TRUE,
          handlers |-> Append(handlers, ClientOf(k)), status |-> "success"]

\* one call of POST /register-webhook
register_webhook(outcome) ==
    /\ registry.pc = "serving"
    /\ Len(registry.calls) < MaxCalls
    /\ (registry.webhook_registered \/ registry.env # "complete")
           => outcome = "registered"                   \* the try block is not entered
    /\ LET k == Len(registry.calls) + 1
           after == register(registry.wa, registry.webhook_registered,
                             registry.handlers, registry.env, outcome, k)
       IN  registry' = [registry EXCEPT
                           !.wa = after.wa,
                           !.webhook_registered = after.webhook_registered,
                           !.handlers = after.handlers,
                           !.calls = Append(@, [outcome |-> outcome,
                                                status |-> after.status,
                                                before |-> registry.wa,
                                                after |-> after.wa])]

\* the module has not been imported
RegisterIdle == registry = NoRegistry

(***************************************************************************)
(* Specifications.                                                         *)
(***************************************************************************)
Init ==
    /\ APP_SECRET \in {None, "s1"}
    /\ VERIFY_TOKEN \in {DefaultVerifyToken, "my_token"}
    /\ WebhookIdle
    /\ SendIdle
    /\ AiIdle
    /\ CallIdle
    /\ DispatchIdle
    /\ RegisterIdle

Next ==
    \/ /\ pc = "idle"
       /\ \E mode \in Modes, challenge \in Challenges, token \in Tokens :
              verify_webhook(mode, challenge, token)
       /\ UNCHANGED notWebhook
    \/ /\ pc = "idle"
       /\ \E parses \in BOOLEAN, raw \in RawBodies, header \in Headers :
              receive_webhook(parses, raw, header)
       /\ UNCHANGED notWebhook
    \/ /\ pc = "try"
       /\ \E obj \in ObjectFields : enter_body(obj)
       /\ UNCHANGED notWebhook
    \/ /\ pc = "entries"
       /\ \E read \in EntryReads : next_entry(read)
       /\ UNCHANGED notWebhook
    \/ /\ pc = "changes"
       /\ \E read \in ChangeReads : next_change(read)
       /\ UNCHANGED notWebhook
    \/ /\ pc = "messages"
       /\ \E u \in Units : start_message(u)
       /\ UNCHANGED notWebhook
    \/ /\ pc = "in_message"
       /\ \E net \in NetOutcomes, pick \in WelcomeIndexes : finish_message(net, pick)
       /\ UNCHANGED notWebhook
    \/ /\ loop_messages
       /\ UNCHANGED notWebhook
    \/ /\ pc = "messages"
       /\ \E read \in MessagesEnd : end_messages(read)
       /\ UNCHANGED notWebhook
    \/ /\ acknowledge
       /\ UNCHANGED notWebhook

Spec == Init /\ [][Next]_vars

SendInit ==
    /\ PHONE_ID \in {None, "PHONE1"}
    /\ ACCESS_TOKEN \in {None, "token"}
    /\ spc = "idle"
    /\ job = NoJob
    /\ outbox = <<>>
    /\ sret = "none"
    /\ http = NoResponse
    /\ seen = <<>>
    /\ APP_SECRET = "s1"
    /\ VERIFY_TOKEN = DefaultVerifyToken
    /\ WebhookIdle
    /\ AiIdle
    /\ CallIdle
    /\ DispatchIdle
    /\ RegisterIdle

SendNext ==
    \/ /\ spc = "idle"
       /\ \E u \in Units, p \in Pids, pick \in WelcomeIndexes : deliver(u, p, pick)
       /\ UNCHANGED notSend
    \/ /\ spc = "done"
       /\ \E pick \in WelcomeIndexes : redeliver(pick)
       /\ UNCHANGED notSend
    \/ /\ spc = "idle"
       /\ \E to \in ApiRecipients, message \in ApiMessages : send_message_api(to, message)
       /\ UNCHANGED notSend
    \/ /\ spc = "post"
       /\ \E net \in NetOutcomes : requests_post(net)
       /\ UNCHANGED notSend
    \/ /\ status_check
       /\ UNCHANGED notSend
    \/ /\ except_clause
       /\ UNCHANGED notSend
    \/ /\ caller_resumes
       /\ UNCHANGED notSend

SendSpec == SendInit /\ [][SendNext]_vars

AiInit ==
    /\ openai_client \in {None, "client"}
    /\ apc = "idle"
    /\ ajob = NoAiJob
    /\ aoutbox = <<>>
    /\ APP_SECRET = "s1"
    /\ VERIFY_TOKEN = DefaultVerifyToken
    /\ WebhookIdle
    /\ SendIdle
    /\ CallIdle
    /\ DispatchIdle
    /\ RegisterIdle

AiNext ==
    \/ /\ apc = "idle"
       /\ \E sender \in Senders, text \in Texts, p \in Pids :
              ai_handle_text_message(sender, text, p)
       /\ UNCHANGED notAi
    \/ /\ apc = "generate"
       /\ \E outcome \in GenOutcomes : get_ai_response(outcome)
       /\ UNCHANGED notAi
    \/ /\ apc = "post"
       /\ \E net \in NetOutcomes : ai_send_text_message(net)
       /\ UNCHANGED notAi

AiSpec == AiInit /\ [][AiNext]_vars

CallInit ==
    /\ sessions = [j \in Jobs |-> NewCall]
    /\ APP_SECRET = "s1"
    /\ VERIFY_TOKEN = DefaultVerifyToken
    /\ WebhookIdle
    /\ SendIdle
    /\ AiIdle
    /\ DispatchIdle
    /\ RegisterIdle

CallNext ==
    \/ /\ \E j \in Jobs, md \in Metadata : parse_metadata(j, md)
       /\ UNCHANGED notCall
    \/ /\ \E j \in Jobs, outcome \in DialOutcomes : create_sip_participant(j, outcome)
       /\ UNCHANGED notCall
    \/ /\ \E j \in Jobs : wait_for_participant(j)
       /\ UNCHANGED notCall
    \/ /\ \E j \in Jobs, outcome \in RecordingOutcomes : start_recording(j, outcome)
       /\ UNCHANGED notCall
    \/ /\ \E j \in Jobs, outcome \in SessionOutcomes : session_start(j, outcome)
       /\ UNCHANGED notCall
    \/ /\ \E j \in Jobs, outcome \in StopOutcomes : stop_recording(j, outcome)
       /\ UNCHANGED notCall
    \/ /\ \E j \in Jobs : conversation_ends(j)
       /\ UNCHANGED notCall

CallSpec == CallInit /\ [][CallNext]_vars

DispatchInit ==
    /\ dispatch = NoDispatch
    /\ APP_SECRET = "s1"
    /\ VERIFY_TOKEN = DefaultVerifyToken
    /\ WebhookIdle
    /\ SendIdle
    /\ AiIdle
    /\ CallIdle
    /\ RegisterIdle

DispatchNext ==
    \/ /\ \E argument \in Arguments : dispatch_main(argument)
       /\ UNCHANGED notDispatch
    \/ /\ make_outbound_call
       /\ UNCHANGED notDispatch
    \/ /\ read_metadata
       /\ UNCHANGED notDispatch

DispatchSpec == DispatchInit /\ [][DispatchNext]_vars

RegisterInit ==
    /\ registry \in {[NoRegistry EXCEPT !.env = env] : env \in Environments}
    /\ APP_SECRET = "s1"
    /\ VERIFY_TOKEN = DefaultVerifyToken
    /\ WebhookIdle
    /\ SendIdle
    /\ AiIdle
    /\ CallIdle
    /\ DispatchIdle

RegisterNext ==
    \/ /\ \E outcome \in ConstructionOutcomes : startup(outcome)
       /\ UNCHANGED notRegister
    \/ /\ \E outcome \in RegisterOutcomes : register_webhook(outcome)
       /\ UNCHANGED notRegister

RegisterSpec == RegisterInit /\ [][RegisterNext]_vars

(***************************************************************************)
(* Properties.                                                             *)
(***************************************************************************)
\* a POST whose body parsed as JSON
ParsedPost == op = "POST" /\ ~flags.unparseable

\* a text unit with a string body and a sender
IsPlainText(u) == u.type = "text" /\ u.textKind = "str" /\ Truthy(u.from)

\* process_message has returned for the unit in cur
Returned == op = "POST" /\ pc = "returned"

\* the branch a network call's reply belongs to
BranchOfReply(reply) == IF reply.kind = "button" THEN "welcome" ELSE reply.tpl

\* the decision order of the routing rules, each rule with the match the
\* specification gives it: test and greeting keywords by equality, topic and
\* career keywords by containment
RuleOfText(text) ==
    LET text_lower == Lower(text)
    IN  IF text_lower \in TestKeywords THEN "webhook_working"
        ELSE IF text_lower \in GreetingKeywords THEN "welcome"
        ELSE IF Contains(K_resume, text_lower) THEN "advice_resume"
        ELSE IF Contains(K_interview, text_lower) THEN "advice_interview"
        ELSE IF Contains(K_salary, text_lower) \/ Contains(K_negotiat, text_lower)
             THEN "advice_salary"
        ELSE IF \E word \in CareerKeywords : Contains(word, text_lower)
             THEN "career_advice"
        ELSE "default_overview"

\* C1: with APP_SECRET not configured, every POST /webhook delivery is
\* rejected with HTTP 403 and no message unit is processed.
C1_FailsClosedWithoutSecret ==
    (ParsedPost /\ APP_SECRET = None) =>
        /\ pc = "done"
        /\ response.status = 403
        /\ cur = NoUnit
        /\ ~flags.sent

\* C2: with a secret configured, verify_webhook_signature accepts a header if
\* and only if it is "sha256=" followed by the hex HMAC-SHA256 of the raw
\* body under that secret.
C2_AcceptsExactlyThePrefixedDigest ==
    (op = "POST" /\ (pc = "try" \/ (pc = "done" /\ sig = "failed"))
        /\ sig \in {"passed", "failed"}) =>
        (sig = "passed" <=>
            req.header = Sha256Prefix \o HexDigest(APP_SECRET, req.raw))

\* C3: a delivery whose signature check fails is answered 403, and neither
\* process_message nor any outbound send is executed for it.
C3_RejectedDeliveryIsNotProcessed ==
    sig = "failed" =>
        /\ pc = "done"
        /\ response.status = 403
        /\ pos = NoPos
        /\ cur = NoUnit
        /\ inflight = <<>>
        /\ sends = <<>>
        /\ ~flags.sent

C3_Witness ==
    /\ op = "POST"
    /\ sig = "failed"
    /\ req.header = Sha256Prefix \o HexDigest("s1", "b2")
    /\ req.raw = "b1"
    /\ response.status = 403

\* C4: GET /webhook answers 200 exactly when hub.mode is "subscribe" and
\* hub.verify_token equals VERIFY_TOKEN; the body is then the received
\* challenge as text/plain; every other request is answered 403.
C4_Handshake ==
    op = "GET" =>
        /\ pc = "done"
        /\ response.status \in {200, 403}
        /\ response.status = 200 <=>
              (req.mode = "subscribe" /\ req.token = VERIFY_TOKEN)
        /\ response.status = 200 =>
              /\ response.media = "text/plain"
              /\ req.challenge # None => response.body = req.challenge

C4_Witness ==
    /\ op = "GET"
    /\ response.status = 200
    /\ response.body = "1158201444"
    /\ req.token = "my_token"

\* C5: once the signature check has passed or was skipped, the only response
\* POST /webhook gives is 200 EVENT_RECEIVED, also when units raised or
\* sends failed.
C5_AlwaysAcknowledges ==
    (op = "POST" /\ sig \in {"passed", "skipped"}) =>
        /\ response \in {NoResponse, EventReceived}
        /\ pc = "done" => response = EventReceived

C5_Witness ==
    /\ op = "POST"
    /\ pc = "done"
    /\ sig = "passed"
    /\ flags.raised
    /\ flags.sendFailed
    /\ response = EventReceived

\* C6: a POST /webhook whose body is unparseable JSON or lacks required
\* fields is acknowledged with the normal 200 and dropped without any
\* outbound send; it never gets an HTTP error response.
C6_MalformedIsAcknowledged ==
    (op = "POST" /\ pc = "done" /\ sig # "failed"
        /\ (flags.unparseable \/ flags.missingField)) =>
        /\ response = EventReceived
        /\ ~flags.sent

\* positions of the nested loops, in payload order
LexLess(a, b) ==
    \/ a[1] < b[1]
    \/ a[1] = b[1] /\ a[2] < b[2]
    \/ a[1] = b[1] /\ a[2] = b[2] /\ a[3] < b[3]

\* C7: within one delivery the units are processed in payload order across
\* entry[], changes[] and messages[], and a unit is never started before the
\* previous one has finished.
C7_InPayloadOrderOneAtATime ==
    /\ [](/\ Len(inflight) <= 1
          /\ inflight # <<>> => (pc = "in_message" /\ inflight[1] = pos)
          /\ sends # <<>> => (cur # NoUnit /\ inflight = <<>>))
    /\ [][pos' # pos => LexLess(pos, pos')]_vars

C7_Witness ==
    /\ pc = "in_message"
    /\ pos = <<2, 1, 2>>
    /\ flags.sent
    /\ inflight = <<pos>>

\* C8: routing is total: a text unit with a sender and a channel id never
\* raises and gets exactly one reply, and a text matching no test, greeting,
\* topic or career keyword gets the capability overview.
C8_RoutingTotalWithDefault ==
    (op = "POST" /\ IsPlainText(cur) /\ Truthy(pid) /\ pc \in {"returned", "ack"}) =>
        /\ pc = "returned"
        /\ Len(sends) = 1
        /\ RuleOfText(cur.body) = "default_overview" =>
              BranchOfReply(sends[1].reply) = "default_overview"

\* C9: the rules are applied in the order test keyword, greeting, topic
\* keyword, career keyword, default, and the first rule that matches decides
\* the reply.
C9_FirstMatchingRuleDecides ==
    (Returned /\ IsPlainText(cur) /\ Truthy(pid)) =>
        /\ Len(sends) = 1
        /\ BranchOfReply(sends[1].reply) = RuleOfText(cur.body)

\* C10: a text gets the welcome reply only when its lower-cased form equals
\* a greeting keyword; a text that merely contains one goes on to the topic,
\* career and default rules.
C10_GreetingIsExactMatch ==
    (Returned /\ IsPlainText(cur) /\ sends # <<>>
        /\ BranchOfReply(sends[1].reply) = "welcome") =>
        Lower(cur.body) \in GreetingKeywords

\* a button reply or a menu (list) selection with a sender
IsSelection(u) ==
    u.type = "interactive" /\ u.ikind \in {"button_reply", "list_reply"}
        /\ Truthy(u.from)

\* the reply the fixed id-to-topic mapping gives a selected id
TopicReplyOf(id) ==
    IF id \in {"goals", "resume", "jobs"} THEN "button_" \o id
    ELSE "button_tell_me_more"

\* C11: every button reply and every menu selection with a sender and a
\* channel id gets exactly one contextual-advice reply: the topic's reply for
\* an id of the mapping (goals, resume, jobs), the generic "tell me more"
\* reply for any other id; none is dropped without a reply.
C11_SelectionsAlwaysGetAdvice ==
    (Returned /\ IsSelection(cur) /\ Truthy(pid)) =>
        /\ Len(sends) = 1
        /\ sends[1].reply.kind = "text"
        /\ sends[1].reply.tpl = TopicReplyOf(cur.button)

\* the rows of the topic-keyword table, in table order
TopicRows == <<"advice_resume", "advice_interview", "advice_salary">>

RowMatches(row, text_lower) ==
    CASE row = 1 -> Contains(K_resume, text_lower)
      [] row = 2 -> Contains(K_interview, text_lower)
      [] OTHER -> Contains(K_salary, text_lower) \/ Contains(K_negotiat, text_lower)

MatchingRows(text_lower) ==
    {row \in DOMAIN TopicRows : RowMatches(row, text_lower)}

EarliestRow(text_lower) ==
    CHOOSE row \in MatchingRows(text_lower) :
        \A other \in MatchingRows(text_lower) : row <= other

\* C12: when the test, greeting and selection rules do not match and a free
\* text contains keywords of more than one row of the topic table, the reply
\* is the static advice of the earliest matching row (resume, interview,
\* salary/negotiat).
C12_EarliestTopicRowWins ==
    (Returned /\ IsPlainText(cur) /\ Truthy(pid)
        /\ Lower(cur.body) \notin TestKeywords
        /\ Lower(cur.body) \notin GreetingKeywords
        /\ Cardinality(MatchingRows(Lower(cur.body))) > 1) =>
        /\ Len(sends) = 1
        /\ BranchOfReply(sends[1].reply) = TopicRows[EarliestRow(Lower(cur.body))]

\* a unit whose kind process_message has no branch for
IsUnknownKind(u) == u # NoUnit /\ u.type \notin HandledTypes \cup {"non_object"}

\* C14: a unit of an unknown kind is dropped: process_message returns without
\* raising and without any send, and the loop goes on with the units that
\* follow it.
C14_UnknownKindIsDropped ==
    /\ []((op = "POST" /\ IsUnknownKind(cur) /\ pc \in {"returned", "ack"}) =>
            /\ pc = "returned"
            /\ sends = <<>>
            /\ ~flags.raised)
    /\ [][(pc = "returned" /\ IsUnknownKind(cur)) =>
            (pc' = "messages" /\ pos' = pos /\ pid' = pid /\ ~flags'.raised)]_vars

C14_Witness ==
    /\ Returned
    /\ flags.dropped
    /\ ~flags.raised
    /\ pos = <<1, 1, 2>>
    /\ IsPlainText(cur)
    /\ Len(sends) = 1

\* a welcome reply: the button message whose text random.choice picked
IsWelcomeReply(reply) ==
    reply.kind = "button" /\ \E k \in WelcomeIndexes : reply.tpl = WELCOME_MESSAGES[k]

C15_OneCallPerReplyAndNoRaise ==
    /\ Len(outbox) <= 1
    /\ spc # "escaped"
    /\ sret # "raised"
    /\ (spc \in {"returned", "done"} /\ job.reply # NoReply
            /\ (job.op = "api" => Configured)) =>
          /\ Len(outbox) = 1
          /\ outbox[1].reply = job.reply
          /\ outbox[1].to = job.to
          /\ outbox[1].pid = job.pid
          /\ sret = IF outbox[1].net = "200" THEN "True" ELSE "False"

C15_Witness ==
    /\ spc = "done"
    /\ job.op = "webhook"
    /\ job.reply.kind = "button"
    /\ Len(outbox) = 1
    /\ outbox[1].net = "exception"
    /\ sret = "False"

\* C16: with PHONE_ID or ACCESS_TOKEN missing, no operation makes an outbound
\* network call: a reply triggered by the webhook and POST /send-message both
\* end in an error without a requests.post.
C16_MissingCredentialsMakeSendingInert ==
    ~Configured =>
        /\ outbox = <<>>
        /\ spc \in {"idle", "done"}
        /\ (job.op = "api" /\ spc = "done") => http.status = 500

\* C17: in AI mode a text that is no test keyword, with a sender and a
\* channel id, gets exactly one outbound text reply; without a client that
\* text is the canned introduction, after a failed generation the canned
\* apology; the failure never leaves the handler.
C17_AiFailureDegradesToCannedReply ==
    /\ apc # "raised"
    /\ (apc = "done" /\ Truthy(ajob.pid) /\ Lower(ajob.text) \notin TestKeywords) =>
          /\ Len(aoutbox) = 1
          /\ aoutbox[1].kind = "text"
          /\ aoutbox[1].to = ajob.sender
          /\ aoutbox[1].text = ajob.reply
          /\ ajob.gen = "not_called" <=> openai_client = None
          /\ ajob.gen = "not_called" => ajob.reply = "fallback_unavailable"
          /\ ajob.gen \in {"api_error", "no_content"} => ajob.reply = "fallback_error"
          /\ ajob.gen = "content" => ajob.reply = "ai_content"

C17_Witness ==
    /\ apc = "done"
    /\ openai_client = "client"
    /\ ajob.gen = "api_error"
    /\ Len(aoutbox) = 1
    /\ aoutbox[1].text = "fallback_error"
    /\ aoutbox[1].net = "200"

\* entrypoint has invoked the capability
Invoked(c, cap) == \E i \in DOMAIN c.log : c.log[i].cap = cap

\* the dial capability has signalled a call failure
DialFailed(c) ==
    \E i \in DOMAIN c.log : c.log[i].cap = "dial" /\ c.log[i].result = "twirp_error"

NoNumberMetadata ==
    {"absent", "empty_string", "invalid_json", "no_field", "empty_number",
     "null_number"}

Rank(state) ==
    CASE state = "Idle" -> 0
      [] state = "Dialing" -> 1
      [] state = "Connected" -> 2
      [] state = "Recording" -> 3
      [] state = "Ending" -> 4
      [] state = "Closed" -> 5
      [] OTHER -> 6

\* C20: a CallSession only moves forward along Idle, Dialing, Connected,
\* Recording, Ending, Closed, or to the terminal Failed, and it is never in
\* Recording without having been in Connected before.
C20_StateMovesForward ==
    /\ [](\A j \in Jobs :
            LET trail == sessions[j].trail
            IN  /\ trail[Len(trail)] = CallState(sessions[j])
                /\ \A i, k \in DOMAIN trail : i < k => Rank(trail[i]) < Rank(trail[k])
                /\ \A k \in DOMAIN trail :
                      trail[k] = "Recording" =>
                          \E i \in 1..(k - 1) : trail[i] = "Connected")
    /\ [][\A j \in Jobs :
            /\ Rank(CallState(sessions[j])) <= Rank(CallState(sessions'[j]))
            /\ CallState(sessions[j]) = "Failed" => sessions'[j] = sessions[j]]_vars

C20_Witness ==
    \E j \in Jobs :
        sessions[j].trail =
            <<"Idle", "Dialing", "Connected", "Recording", "Ending", "Closed">>

\* the recording started by job j has not been stopped
ActiveRecording(j) ==
    /\ sessions[j].recording_id # None
    /\ ~Invoked(sessions[j], "stop_egress")

\* C21: a room has at most one active recording at any time, also when the
\* dispatch for the room is delivered twice: no recording is started for a
\* room whose earlier recording has not been stopped.
C21_OneActiveRecordingPerRoom ==
    \A j, k \in Jobs :
        (j # k /\ RoomOf(j) = RoomOf(k)) => ~(ActiveRecording(j) /\ ActiveRecording(k))

\* C22: stop-recording is issued only after the agent session has reported
\* that the conversation is complete.
C22_StopOnlyAfterCompletion ==
    \A j \in Jobs :
        Invoked(sessions[j], "stop_egress") => sessions[j].conversation = "completed"

\* positions of the stop-recording invocations of a session
StopsOf(c) == {i \in DOMAIN c.log : c.log[i].cap = "stop_egress"}

\* C23: at the end of the session stop-recording is invoked exactly once,
\* with the stored recording id, when a recording id is stored, and not at
\* all when none is stored; a failing stop is not retried and the session
\* is Closed all the same.
C23_StopOnceWithStoredId ==
    \A j \in Jobs :
        LET c == sessions[j]
        IN  /\ Cardinality(StopsOf(c)) <= 1
            /\ \A i \in StopsOf(c) :
                  /\ c.recording_id # None
                  /\ c.log[i].arg = c.recording_id
                  /\ i = Len(c.log)
                  /\ CallState(c) = "Closed"
            /\ CallState(c) = "Closed" => (c.recording_id # None <=> StopsOf(c) # {})

C23_Witness ==
    \E j \in Jobs :
        /\ CallState(sessions[j]) = "Closed"
        /\ sessions[j].log[Len(sessions[j].log)] =
               Invocation("stop_egress", EgressId(j), "error")

\* C24: when start-recording fails on a connected call no recording id is
\* stored, the agent session is started next, no stop-recording follows, and
\* the session is Failed only if the agent session itself failed to start.
C24_RecordingFailureIsNotFatal ==
    \A j \in Jobs :
        LET c == sessions[j]
        IN  \A i \in DOMAIN c.log :
                (c.log[i].cap = "start_egress" /\ c.log[i].result = "error") =>
                    /\ c.recording_id = None
                    /\ StopsOf(c) = {}
                    /\ IF i = Len(c.log)
                       THEN CallState(c) = "Connected"
                       ELSE /\ c.log[i + 1].cap = "session_start"
                            /\ CallState(c) = "Failed" => c.log[i + 1].result = "error"

C24_Witness ==
    \E j \in Jobs :
        /\ CallState(sessions[j]) = "Closed"
        /\ sessions[j].log = <<Invocation("dial", "+15550100", "answered"),
                               Invocation("start_egress", "", "error"),
                               Invocation("session_start", "", "returned")>>

\* C27: once a recording has been started, entrypoint does not terminate
\* without having attempted stop-recording, whichever way it terminates.
C27_StartedRecordingIsStopped ==
    \A j \in Jobs :
        (sessions[j].pc \notin {"start", "dial", "wait", "connected", "agent", "ending"}
            /\ sessions[j].recording_id # None)
        => Invoked(sessions[j], "stop_egress")

\* C26: in an accepted delivery the loop over the message units goes on after
\* every unit: when process_message has ended for a unit, by returning or by
\* raising, control is back in the loop and the later units are processed.
C26_LoopSurvivesAUnit ==
    (op = "POST" /\ cur # NoUnit) => pc \in {"in_message", "returned"}

\* C29: every network call made for a message goes through the
\* phone_number_id of the change that contains the message, and a message of
\* a change without a phone_number_id makes no network call.
C29_ReplyGoesThroughItsOwnChange ==
    \A i \in DOMAIN sends :
        /\ Truthy(pid)
        /\ sends[i].pid = pid

C29_Witness ==
    /\ pos = <<1, 2, 1>>
    /\ pid = "PID2"
    /\ Len(sends) = 1
    /\ sends[1].pid = "PID2"
    /\ sends[1].reply.kind = "text"

\* C28: for every argument the dispatch script accepts (it starts with "+"),
\* entrypoint reads from the metadata the script built exactly that number
\* and treats the job as outbound.
C28_MetadataRoundTrips ==
    dispatch.pc = "read" =>
        /\ dispatch.read = dispatch.phone_number
        /\ dispatch.is_outbound

\* the calls of POST /register-webhook that failed
FailedCalls == {i \in DOMAIN registry.calls : registry.calls[i].status \in {"400", "500"}}

\* C30: over any sequence of calls of POST /register-webhook the handlers are
\* registered at most once; webhook_registered is true only after a call in
\* which the client was built and the handlers were added; a failed call
\* leaves webhook_registered false and the client that was there in place;
\* every call after a success answers already_registered and leaves the
\* client alone.
C30_RegistrationIsIdempotent ==
    LET calls == registry.calls
    IN  /\ Len(registry.handlers) <= 1
        /\ registry.webhook_registered <=>
               \E i \in DOMAIN calls : calls[i].status = "success"
        /\ \A i \in DOMAIN calls :
               calls[i].status = "success" => calls[i].outcome = "registered"
        /\ \A i \in FailedCalls :
               /\ calls[i].after = calls[i].before
               /\ \A k \in 1..i : calls[k].status # "success"
        /\ \A i, k \in DOMAIN calls :
               (i < k /\ calls[i].status = "success") =>
                   /\ calls[k].status = "already_registered"
                   /\ calls[k].after = calls[k].before

\* C25: no handler writes state that another request reads: every call of
\* POST /register-webhook leaves the module globals as the import left them
\* and answers what the same call answers when it is the only one.
C25_NoSharedMutableState ==
    \A i \in DOMAIN registry.calls :
        LET call == registry.calls[i]
            imported == registry.calls[1].before
        IN  /\ call.after = imported
            /\ call.status =
                   register(imported, FALSE, <<>>, registry.env, call.outcome, i).status

====
